---------------------------- MODULE Spec2Model ----------------------------
(***************************************************************************)
(* A model of git-dumper: the crawler of src/dump_git.rs (download_all,    *)
(* its spawned tasks, queue_new_references, hash_to_url), the parsers of   *)
(* src/git_parsing.rs and the start-up code of src/main.rs.                *)
(*                                                                         *)
(* Data representation.                                                    *)
(*  - A byte is an integer 0..255; a byte string (&[u8], Vec<u8>) is a     *)
(*    tuple of bytes.                                                      *)
(*  - A Rust str/String is a tuple of characters.  A character is a TLA+   *)
(*    string: an ASCII character is the one-character string of itself     *)
(*    ("a", "/", "\n"), and the few other code points the model knows are  *)
(*    named tokens ("NUL", "U+0661", "U+FFFD").  Str("HEAD") is the str    *)
(*    written HEAD.                                                        *)
(*  - A served file is a record [zlib, bytes]: with zlib = "none" the file *)
(*    is the raw bytes (and is no zlib stream); with zlib = "ok" the file  *)
(*    is a zlib stream that inflates to bytes; with zlib = "truncated" it  *)
(*    is such a stream cut off after its first PEEK_LEN output bytes.      *)
(***************************************************************************)
EXTENDS Integers, Sequences, FiniteSets, TLC

(***************************************************************************)
(* Characters, bytes and UTF-8                                             *)
(***************************************************************************)

\* The printable ASCII characters in code order: code 32 (space) to code 95
\* (_), and code 97 (a) to code 126 (~).  Code 96, the grave accent, cannot
\* be written in a string here and is not modelled.
PrintableLow == " !\"#$%&'()*+,-./0123456789:;<=>?@ABCDEFGHIJKLMNOPQRSTUVWXYZ[\\]^_"

PrintableHigh == "abcdefghijklmnopqrstuvwxyz{|}~"

\* A string literal as a str: the tuple of its characters.
Str(s) == [i \in 1..Len(s) |-> SubSeq(s, i, i)]

\* The character of an ASCII byte (the control characters the model knows
\* are NUL, tab, line feed and carriage return).
Chr(b) ==
  CASE b = 0 -> "NUL"
    [] b = 9 -> "\t"
    [] b = 10 -> "\n"
    [] b = 13 -> "\r"
    [] b >= 32 /\ b <= 95 -> SubSeq(PrintableLow, b - 31, b - 31)
    [] b >= 97 /\ b <= 126 -> SubSeq(PrintableHigh, b - 96, b - 96)

\* The ASCII bytes the model gives a character.
AsciiBytes == {0, 9, 10, 13} \cup (32..95) \cup (97..126)

\* The code of each ASCII character: the inverse of Chr.
Ord == [c \in {Chr(b) : b \in AsciiBytes} |-> CHOOSE b \in AsciiBytes : Chr(b) = c]

\* The UTF-8 encoding of one character: one byte for ASCII, D9 A1 for
\* U+0661 (ARABIC-INDIC DIGIT ONE), EF BF BD for U+FFFD (the replacement
\* character).
Utf8Char(c) ==
  CASE c = "U+0661" -> <<217, 161>>
    [] c = "U+FFFD" -> <<239, 191, 189>>
    [] OTHER -> <<Ord[c]>>

\* str::len: the length of a str in bytes.
ByteLen(s) ==
  Len(s) + Cardinality({i \in 1..Len(s) : s[i] = "U+0661"})
         + 2 * Cardinality({i \in 1..Len(s) : s[i] = "U+FFFD"})

\* The bytes of a str (String::into_bytes, str::as_bytes).
RECURSIVE Utf8(_)
Utf8(s) == IF s = <<>> THEN <<>> ELSE Utf8Char(Head(s)) \o Utf8(Tail(s))

\* The bytes of a string literal.
Bytes(s) == Utf8(Str(s))

\* Whether byte i of a byte string is the second or third byte of a
\* well-formed multi-byte sequence the model knows (D9 A1, EF BF BD).
IsContinuation(data, i) ==
  \/ i >= 2 /\ data[i] = 161 /\ data[i - 1] = 217
  \/ /\ i >= 2 /\ i + 1 <= Len(data)
     /\ data[i - 1] = 239 /\ data[i] = 191 /\ data[i + 1] = 189
  \/ i >= 3 /\ data[i - 2] = 239 /\ data[i - 1] = 191 /\ data[i] = 189

\* The character that starts at byte i, or "invalid" when the bytes there
\* are no well-formed UTF-8 sequence.
CharAt(data, i) ==
  CASE data[i] \in AsciiBytes -> Chr(data[i])
    [] data[i] = 217 /\ i + 1 <= Len(data) /\ data[i + 1] = 161 -> "U+0661"
    [] /\ data[i] = 239 /\ i + 2 <= Len(data)
       /\ data[i + 1] = 191 /\ data[i + 2] = 189 -> "U+FFFD"
    [] OTHER -> "invalid"

\* The positions of a byte string at which a character or an invalid byte
\* starts, in order.
CharStarts(data) ==
  LET IsStart(i) == ~IsContinuation(data, i)
  IN  SelectSeq([i \in 1..Len(data) |-> i], IsStart)

\* std::str::from_utf8: the str of a byte string, or an error when some
\* byte starts no well-formed sequence.
from_utf8(data) ==
  LET starts == CharStarts(data)
  IN  IF \E k \in DOMAIN starts : CharAt(data, starts[k]) = "invalid" THEN
        [ok |-> FALSE, val |-> <<>>]
      ELSE [ok |-> TRUE, val |-> [k \in DOMAIN starts |-> CharAt(data, starts[k])]]

\* String::from_utf8_lossy: as from_utf8, with U+FFFD in place of each byte
\* that starts no well-formed sequence.
from_utf8_lossy(data) ==
  LET starts == CharStarts(data)
  IN  [k \in DOMAIN starts |->
         IF CharAt(data, starts[k]) = "invalid" THEN "U+FFFD"
         ELSE CharAt(data, starts[k])]

(***************************************************************************)
(* str operations of the Rust standard library, as the code uses them      *)
(***************************************************************************)

\* char::is_whitespace (the White_Space characters among those modelled).
WhiteSpace == {" ", "\t", "\n", "\r"}

starts_with(s, p) == Len(s) >= Len(p) /\ SubSeq(s, 1, Len(p)) = p

\* str::trim_end
RECURSIVE trim_end(_)
trim_end(s) ==
  IF s # <<>> /\ s[Len(s)] \in WhiteSpace THEN trim_end(SubSeq(s, 1, Len(s) - 1))
  ELSE s

\* str::trim
RECURSIVE trim_start(_)
trim_start(s) ==
  IF s # <<>> /\ Head(s) \in WhiteSpace THEN trim_start(Tail(s)) ELSE s

trim(s) == trim_end(trim_start(s))

\* The position of the first character of s in set cs, or 0.
FirstIn(s, cs) ==
  IF \E i \in 1..Len(s) : s[i] \in cs
  THEN CHOOSE i \in 1..Len(s) : s[i] \in cs /\ \A j \in 1..(i - 1) : s[j] \notin cs
  ELSE 0

\* str::split_once: the parts before and after the first space.
split_once(s, c) ==
  LET i == FirstIn(s, {c})
  IN  IF i = 0 THEN [some |-> FALSE, left |-> <<>>, right |-> <<>>]
      ELSE [some |-> TRUE, left |-> SubSeq(s, 1, i - 1),
            right |-> SubSeq(s, i + 1, Len(s))]

\* str::split on a set of separator characters: the segments, in order.
RECURSIVE split(_, _)
split(s, cs) ==
  LET i == FirstIn(s, cs)
  IN  IF i = 0 THEN <<s>>
      ELSE <<SubSeq(s, 1, i - 1)>> \o split(SubSeq(s, i + 1, Len(s)), cs)

\* One line of str::lines: a trailing carriage return is not part of it.
StripCr(l) == IF l # <<>> /\ l[Len(l)] = "\r" THEN SubSeq(l, 1, Len(l) - 1) ELSE l

\* str::lines: the lines, split at line feeds; a final line feed ends the
\* last line and starts no empty one.
RECURSIVE lines(_)
lines(s) ==
  LET i == FirstIn(s, {"\n"})
  IN  IF s = <<>> THEN <<>>
      ELSE IF i = 0 THEN <<StripCr(s)>>
      ELSE <<StripCr(SubSeq(s, 1, i - 1))>> \o lines(SubSeq(s, i + 1, Len(s)))

(***************************************************************************)
(* src/git_parsing.rs                                                      *)
(***************************************************************************)

\* A Result: Ok(val) or Err.
Ok(v) == [ok |-> TRUE, val |-> v]

Err == [ok |-> FALSE, val |-> <<>>]

\* The characters of the regex class \d.  The regex crate's \d is Unicode
\* aware: it holds every decimal digit (general category Nd), of which the
\* model knows the ASCII digits and U+0661.
RegexDigit == {"0", "1", "2", "3", "4", "5", "6", "7", "8", "9", "U+0661"}

\* The characters of the regex class [a-f\d] (written [\da-f] in dump_git.rs).
RegexHexChar == {"a", "b", "c", "d", "e", "f"} \cup RegexDigit

\* REGEX_HASH.is_match: ^[a-f\d]{40}$
REGEX_HASH(s) == Len(s) = 40 /\ \A i \in 1..Len(s) : s[i] \in RegexHexChar

\* REGEX_REFS_PATH without its ^: refs/heads/(\S+)$ matches at any start.
REGEX_REFS_PATH_unanchored(s) ==
  \E k \in 1..Len(s) :
     /\ k + 11 <= Len(s)
     /\ SubSeq(s, k, k + 10) = Str("refs/heads/")
     /\ \A i \in (k + 11)..Len(s) : s[i] \notin WhiteSpace

\* REGEX_REFS_PATH.is_match: ^refs/heads/(\S+)$
REGEX_REFS_PATH(s) ==
  /\ starts_with(s, Str("refs/heads/"))
  /\ Len(s) > 11
  /\ \A i \in 12..Len(s) : s[i] \notin WhiteSpace

EMPTY_HASH == [i \in 1..40 |-> "0"]

parse_head(data) ==
  LET utf8 == from_utf8(data)
      content == trim_end(SubSeq(utf8.val, 6, Len(utf8.val)))
  IN  IF ~utf8.ok THEN Err
      ELSE IF ~starts_with(utf8.val, Str("ref: ")) THEN Err
      ELSE IF ~REGEX_REFS_PATH(content) THEN Err
      ELSE IF \E k \in DOMAIN split(content, {"/", "\\"}) :
                 split(content, {"/", "\\"})[k] = Str("..")
           THEN Err
      ELSE Ok(content)

parse_hash(data) ==
  LET utf8 == from_utf8(data)
      content == trim_end(utf8.val)
  IN  IF ~utf8.ok THEN Err
      ELSE IF ~REGEX_HASH(content) THEN Err
      ELSE Ok(content)

\* The hashes parse_log takes from one line.
LogLineHashes(line) ==
  LET first == split_once(line, " ")
      hash1 == IF first.some THEN first.left ELSE <<>>
      rest == IF first.some THEN first.right ELSE <<>>
      second == split_once(rest, " ")
      hash2 == IF second.some THEN second.left ELSE <<>>
  IN  {h \in {hash1, hash2} : REGEX_HASH(h) /\ h # EMPTY_HASH}

\* parse_log never fails; its value is a HashSet.
parse_log(data) ==
  LET content == lines(from_utf8_lossy(data))
  IN  Ok(UNION {LogLineHashes(content[k]) : k \in DOMAIN content})

\* The size of the window peek_object_type inflates into.
PEEK_LEN == 6

\* peek_object_type: the first PEEK_LEN inflated bytes, in an array that
\* starts as zeroes.
peek_object_type(file) ==
  IF file.zlib = "none" THEN Err
  ELSE Ok([i \in 1..PEEK_LEN |-> IF i <= Len(file.bytes) THEN file.bytes[i] ELSE 0])

\* miniz_oxide::inflate::decompress_to_vec_zlib
decompress_to_vec_zlib(file) == IF file.zlib = "ok" THEN Ok(file.bytes) ELSE Err

\* The position of the first byte b of data, or 0.
FirstByte(data, b) ==
  IF \E i \in 1..Len(data) : data[i] = b
  THEN CHOOSE i \in 1..Len(data) : data[i] = b /\ \A j \in 1..(i - 1) : data[j] # b
  ELSE 0

split_object_at_zero(data) ==
  IF FirstByte(data, 0) = 0 THEN Err
  ELSE Ok(SubSeq(data, FirstByte(data, 0) + 1, Len(data)))

HexDigits == "0123456789abcdef"

\* The number of raw bytes of a hash in a tree entry (0x14).
RAW_HASH_LEN == 20

\* slice_to_hex: two lowercase hex digits for each byte.
RECURSIVE slice_to_hex(_)
slice_to_hex(data) ==
  IF data = <<>> THEN <<>>
  ELSE << SubSeq(HexDigits, (Head(data) \div 16) + 1, (Head(data) \div 16) + 1),
          SubSeq(HexDigits, (Head(data) % 16) + 1, (Head(data) % 16) + 1) >>
       \o slice_to_hex(Tail(data))

\* The loop of the tree branch of parse_object: while bytes remain, skip to
\* past the next zero byte, take up to RAW_HASH_LEN bytes, and push their hex.
RECURSIVE TreeHashes(_)
TreeHashes(data) ==
  LET z == FirstByte(data, 0)
      last == IF z + RAW_HASH_LEN < Len(data) THEN z + RAW_HASH_LEN ELSE Len(data)
  IN  IF data = <<>> THEN <<>>
      ELSE IF z = 0 THEN <<slice_to_hex(<<>>)>>
      ELSE <<slice_to_hex(SubSeq(data, z + 1, last))>>
           \o TreeHashes(SubSeq(data, last + 1, Len(data)))

\* The lines of a commit all taken as header lines, the message included.
HeaderLinesAll(ls) == SelectSeq(ls, LAMBDA l : trim(l) # <<>>)

\* The header lines of a commit: those before the first line that is empty
\* once trimmed.
RECURSIVE HeaderLines(_)
HeaderLines(ls) ==
  IF ls = <<>> \/ trim(Head(ls)) = <<>> THEN <<>>
  ELSE <<Head(ls)>> \o HeaderLines(Tail(ls))

\* The filter_map of the commit branch: the rest of each line that starts
\* with "tree " or "parent ".
RECURSIVE CommitHashes(_)
CommitHashes(ls) ==
  LET parts == split_once(Head(ls), " ")
  IN  IF ls = <<>> THEN <<>>
      ELSE IF parts.some /\ parts.left \in {Str("tree"), Str("parent")}
           THEN <<parts.right>> \o CommitHashes(Tail(ls))
      ELSE CommitHashes(Tail(ls))

Blob == [kind |-> "Blob", hashes |-> <<>>]

Tree(hashes) == [kind |-> "Tree", hashes |-> hashes]

Commit(hashes) == [kind |-> "Commit", hashes |-> hashes]

parse_object(file) ==
  LET peek == peek_object_type(file)
      decompressed == decompress_to_vec_zlib(file)
      body == split_object_at_zero(decompressed.val)
  IN  IF ~peek.ok THEN Err
      ELSE IF SubSeq(peek.val, 1, 4) = Bytes("blob") THEN Ok(Blob)
      ELSE IF SubSeq(peek.val, 1, 4) = Bytes("tree")
           THEN IF ~decompressed.ok \/ ~body.ok THEN Err
                ELSE Ok(Tree(TreeHashes(body.val)))
      ELSE IF peek.val = Bytes("commit")
           THEN IF ~decompressed.ok \/ ~body.ok THEN Err
                ELSE Ok(Commit(CommitHashes(HeaderLines(lines(from_utf8_lossy(body.val))))))
      ELSE Err

(***************************************************************************)
(* src/dump_git.rs: paths                                                  *)
(***************************************************************************)

\* A pattern for object paths that every path matches.
REGEX_OBJECT_PATH_any(n) == TRUE

\* REGEX_OBJECT_PATH.is_match: [\da-f]{2}/[\da-f]{38}, which is not
\* anchored and so matches anywhere in the path.
REGEX_OBJECT_PATH(n) ==
  \E i \in 1..Len(n) :
     /\ i + 40 <= Len(n)
     /\ n[i] \in RegexHexChar /\ n[i + 1] \in RegexHexChar
     /\ n[i + 2] = "/"
     /\ \A j \in (i + 3)..(i + 40) : n[j] \in RegexHexChar

START_FILES ==
  << Str("info/exclude"), Str("logs/HEAD"), Str("objects/info/packs"),
     Str("config"), Str("COMMIT_EDITMSG"), Str("description"),
     Str("FETCH_HEAD"), Str("HEAD"), Str("index"), Str("ORIG_HEAD"),
     Str("packed-refs"), Str("refs/remotes/origin/HEAD") >>

\* The number of characters of hash that make up its first two bytes, or -1
\* when byte offset 2 is inside a character.
StartChars(hash) ==
  IF \E k \in 0..Len(hash) : ByteLen(SubSeq(hash, 1, k)) = 2
  THEN CHOOSE k \in 0..Len(hash) : ByteLen(SubSeq(hash, 1, k)) = 2
  ELSE -1

\* Whether hash_to_url panics: its assertion that the hash is 40 bytes long
\* fails, or a slice boundary is inside a character.
hash_to_url_panics(hash) == ByteLen(hash) # 40 \/ StartChars(hash) = -1

\* hash_to_url with the directory cut after three bytes instead of two.
hash_to_url_three(hash) ==
  Str("objects/") \o SubSeq(hash, 1, StartChars(hash) + 1) \o Str("/")
    \o SubSeq(hash, StartChars(hash) + 2, Len(hash))

hash_to_url(hash) ==
  Str("objects/") \o SubSeq(hash, 1, StartChars(hash)) \o Str("/")
    \o SubSeq(hash, StartChars(hash) + 1, Len(hash))

(***************************************************************************)
(* src/dump_git.rs: queue_new_references                                   *)
(***************************************************************************)

\* The bytes of a served file as the text parsers see them.  Of a zlib
\* stream they see the compressed bytes, modelled by the stream's two header
\* bytes 78 9C, which are no UTF-8 and hold no hash.
FileBytes(file) == IF file.zlib = "none" THEN file.bytes ELSE <<120, 156>>

\* The arm of the match of queue_new_references that name takes: the parser
\* the file is handed to, or "none" for the last arm.
Dispatch(name) ==
  IF name \in {Str("HEAD"), Str("refs/remotes/origin/HEAD")} THEN "parse_head"
  ELSE IF starts_with(name, Str("refs/heads/")) \/ name = Str("ORIG_HEAD") THEN "parse_hash"
  ELSE IF starts_with(name, Str("logs/")) THEN "parse_log"
  ELSE IF starts_with(name, Str("objects/")) /\ REGEX_OBJECT_PATH(name) THEN "parse_object"
  ELSE "none"

\* What one call of queue_new_references does: the paths it sends, in
\* order, and how it ends: "ok" (returns Ok), "err" (returns Err) or "panic"
\* (hash_to_url panics).
Outcome(msgs, ending) == [msgs |-> msgs, ending |-> ending]

\* A loop that sends hash_to_url(hash) for each hash in turn: it sends the
\* paths of the hashes before the first one hash_to_url panics on.
SendHashes(hashes) ==
  LET bad == {i \in DOMAIN hashes : hash_to_url_panics(hashes[i])}
      n == IF bad = {} THEN Len(hashes)
           ELSE (CHOOSE i \in bad : \A j \in bad : i <= j) - 1
  IN  Outcome([i \in 1..n |-> hash_to_url(hashes[i])],
              IF bad = {} THEN "ok" ELSE "panic")

\* The orders in which a HashSet may be iterated.
Orders(set) ==
  {o \in [1..Cardinality(set) -> set] : \A i, j \in DOMAIN o : o[i] = o[j] => i = j}

\* The outcomes queue_new_references may have for the file downloaded from
\* path name (more than one only where a HashSet is iterated).
queue_new_references(name, file) ==
  IF name \in {Str("HEAD"), Str("refs/remotes/origin/HEAD")} THEN
    IF ~parse_head(FileBytes(file)).ok THEN {Outcome(<<>>, "err")}
    ELSE {Outcome(<<parse_head(FileBytes(file)).val>>, "ok")}
  ELSE IF starts_with(name, Str("refs/heads/")) \/ name = Str("ORIG_HEAD") THEN
    IF ~parse_hash(FileBytes(file)).ok THEN {Outcome(<<>>, "err")}
    ELSE {SendHashes(<<parse_hash(FileBytes(file)).val>>)}
  ELSE IF starts_with(name, Str("logs/")) THEN
    {SendHashes(o) : o \in Orders(parse_log(FileBytes(file)).val)}
  ELSE IF starts_with(name, Str("objects/")) /\ REGEX_OBJECT_PATH(name) THEN
    IF ~parse_object(file).ok THEN {Outcome(<<>>, "err")}
    ELSE IF parse_object(file).val.kind = "Blob" THEN {Outcome(<<>>, "ok")}
    ELSE {SendHashes(parse_object(file).val.hashes)}
  ELSE {Outcome(<<>>, "ok")}

(***************************************************************************)
(* The servers the crawl is run against                                    *)
(***************************************************************************)

\* A served file that is plain bytes, and one that is a zlib stream.
Plain(bytes) == [zlib |-> "none", bytes |-> bytes]

Zlib(bytes) == [zlib |-> "ok", bytes |-> bytes]

\* The hash made of forty times one character, and its twenty raw bytes.
HashOf(c) == [i \in 1..40 |-> c]

RawHash(b) == [i \in 1..RAW_HASH_LEN |-> b]

HashA == HashOf("a")

HashB == HashOf("b")

CommitHash == HashOf("c")

TreeHash == HashOf("d")

\* Forty bytes that are no hash: a relative path that climbs out of the
\* directory it is joined to.
TraversalHash == Str("../../../../../../../../../../tmp/pwn.sh")

\* "e2e": HEAD names the branch main, whose ref file holds HashA; nothing
\* else is served.
ServerE2E ==
  { <<Str("HEAD"), Plain(Bytes("ref: refs/heads/main\n"))>>,
    <<Str("refs/heads/main"), Plain(Utf8(HashA) \o Bytes("\n"))>> }

\* "graph": ORIG_HEAD holds a commit whose headers name a tree, the blob
\* HashB and the commit itself as parents; the tree's one entry is HashB
\* again.  HEAD is served with a content parse_head rejects.
ServerGraph ==
  { <<Str("ORIG_HEAD"), Plain(Utf8(CommitHash) \o Bytes("\n"))>>,
    <<Str("HEAD"), Plain(Bytes("gitdir: elsewhere\n"))>>,
    <<hash_to_url(CommitHash),
      Zlib(Bytes("commit 150") \o <<0>>
           \o Bytes("tree ") \o Utf8(TreeHash) \o Bytes("\n")
           \o Bytes("parent ") \o Utf8(HashB) \o Bytes("\n")
           \o Bytes("parent ") \o Utf8(CommitHash) \o Bytes("\n")
           \o Bytes("author a <a@b> 1 +0000\n\nmessage\n"))>>,
    <<hash_to_url(TreeHash),
      Zlib(Bytes("tree 29") \o <<0>> \o Bytes("100644 f") \o <<0>> \o RawHash(187))>>,
    <<hash_to_url(HashB), Zlib(Bytes("blob 3") \o <<0>> \o Bytes("abc"))>> }

\* "zero": ORIG_HEAD holds the all-zero hash, and the reflog has a first
\* entry whose old hash is the all-zero hash.
ServerZero ==
  { <<Str("ORIG_HEAD"), Plain(Utf8(EMPTY_HASH) \o Bytes("\n"))>>,
    <<Str("logs/HEAD"),
      Plain(Utf8(EMPTY_HASH) \o Bytes(" ") \o Utf8(HashA) \o Bytes(" a <a@b> 1 +0000\tinit\n")
            \o Utf8(HashA) \o Bytes(" ") \o Utf8(HashB) \o Bytes(" a <a@b> 2 +0000\tnext\n"))>> }

\* "badcommit": the remote HEAD names the branch dev, whose ref file holds a
\* commit; the commit's headers are a tree that is no hash but a relative
\* path, a parent that is too short, and the parent HashA.  The server
\* serves the path the tree header leads to, with a ref file as content,
\* and objects/info/packs, with a hash as content.
ServerBadCommit ==
  { <<Str("refs/remotes/origin/HEAD"), Plain(Bytes("ref: refs/heads/dev\n"))>>,
    <<Str("refs/heads/dev"), Plain(Utf8(CommitHash))>>,
    <<hash_to_url(CommitHash),
      Zlib(Bytes("commit 99") \o <<0>>
           \o Bytes("tree ") \o Utf8(TraversalHash) \o Bytes("\n")
           \o Bytes("parent abc\n")
           \o Bytes("parent ") \o Utf8(HashA) \o Bytes("\n\nmessage\n"))>>,
    <<hash_to_url(TraversalHash), Plain(Bytes("ref: refs/heads/main\n"))>>,
    <<Str("objects/info/packs"), Plain(Utf8(TreeHash) \o Bytes("\n"))>> }

ServerIds == {"e2e", "graph", "zero", "badcommit"}

Served(id) ==
  CASE id = "e2e" -> ServerE2E
    [] id = "graph" -> ServerGraph
    [] id = "zero" -> ServerZero
    [] id = "badcommit" -> ServerBadCommit

\* Whether server id has a file at path, and the file.
HasFile(id, path) == \E e \in Served(id) : e[1] = path

FileAt(id, path) == (CHOOSE e \in Served(id) : e[1] = path)[2]

\* The URL of the directory the servers serve their files under.
ServerRoot == Str("http://h/.git/")

\* The URL arguments the crawl is run with: the server's directory with and
\* without its trailing slash.
BaseUrls == {ServerRoot, Str("http://h/.git")}

\* Whether server id answers a GET of url with status 200, and the body.
Answers(id, url) == \E e \in Served(id) : ServerRoot \o e[1] = url

BodyAt(id, url) == (CHOOSE e \in Served(id) : ServerRoot \o e[1] = url)[2]

\* queue_new_references on each served file, evaluated once: for each
\* server, the pairs of a path and the outcomes of the call for its file.
ServedOutcomes ==
  [id \in ServerIds |-> {<<e[1], queue_new_references(e[1], e[2])>> : e \in Served(id)}]

\* The outcomes of queue_new_references(path, FileAt(id, path)).
OutcomesAt(id, path) == (CHOOSE e \in ServedOutcomes[id] : e[1] = path)[2]

\* The outcomes of queue_new_references(name, body) for the body server id
\* answers a GET of url with.
OutcomesFor(id, name, url) ==
  IF url = ServerRoot \o name THEN OutcomesAt(id, name)
  ELSE queue_new_references(name, BodyAt(id, url))

(***************************************************************************)
(* src/main.rs and src/dump_git.rs: the crawl                              *)
(***************************************************************************)

\* The largest max_task_count the model runs the crawl with.
MaxTasks == 2

\* The largest number of faults of the environment in one run: downloads of
\* a file the server has that fail all the same, and calls of write_file
\* that return Err.
MaxFaults == 1

VARIABLES
  server,          \* the server the crawl talks to: an element of ServerIds
  base_url,        \* the URL argument, as main hands it to download_all
  call,            \* the parser call made on its own (ParserSpec); NoCall
                   \* throughout a crawl
  max_task_count,  \* the value of --tasks
  pc,              \* where main is: "main", "recv" and "sleep" (in the loop
                   \* of download_all), "done" (main returned Ok), "failed"
  cache,           \* download_all's cache: the set of paths claimed
  chan,            \* the messages buffered in the channel: their paths
  senders,         \* the number of live senders of the channel
  tasks,           \* the tasks spawned so far, in spawn order
  threads,         \* download_all's threads: the handles it holds, as
                   \* indices into tasks
  disk,            \* the paths write_file has written
  faults           \* the number of faults of the environment so far

vars ==
  <<server, base_url, call, max_task_count, pc, cache, chan, senders, tasks, threads, disk, faults>>

\* format!("{}{}", &base_url, &message.path)
format_url(base, path) == base \o path

\* No parser call: the value of call throughout a crawl.
NoCall == [fn |-> "", arg |-> Plain(<<>>), ret |-> Err]

\* A task as tokio::spawn creates it: about to call download.  url is the
\* URL it downloads, pc where the task is ("download", "send", "logerr",
\* "finished"), fetched whether download returned Ok, wrote what write_file
\* returned ("no" before the call), todo the paths queue_new_references has
\* still to send, sent the paths it has sent, ending how the call of
\* queue_new_references ends ("" before the call).
NewTask(path) ==
  [path |-> path, url |-> format_url(base_url, path), pc |-> "download",
   fetched |-> FALSE, wrote |-> "no", todo |-> <<>>, sent |-> <<>>, ending |-> ""]

\* JoinHandle::is_finished
is_finished(t) == tasks[t].pc = "finished"

\* A cache that is never consulted: every message is taken as new.
cache_contains_never(path) == FALSE

\* cache.contains(&message.path)
cache_contains(path) == path \in cache

\* The condition of the loop that waits for a free slot.
threads_full(handles) == Cardinality(handles) >= max_task_count

Init ==
  /\ server \in ServerIds
  /\ base_url \in BaseUrls
  /\ call = NoCall
  /\ max_task_count \in 0..MaxTasks
  /\ pc = "main"
  /\ cache = {}
  /\ chan = <<>>
  /\ senders = 0
  /\ tasks = <<>>
  /\ threads = {}
  /\ disk = {}
  /\ faults = 0

\* CreateDirFails for a main that creates the directory after download_all
\* has sent the start files.
CreateDirFailsAfterSeeding ==
  /\ pc = "main"
  /\ chan' = START_FILES
  /\ senders' = Len(START_FILES)
  /\ pc' = "failed"
  /\ UNCHANGED <<server, base_url, call, max_task_count, cache, tasks, threads, disk, faults>>

\* main: create_dir_all fails, and main returns the error.
CreateDirFails ==
  /\ pc = "main"
  /\ pc' = "failed"
  /\ UNCHANGED <<server, base_url, call, max_task_count, cache, chan, senders, tasks, threads, disk, faults>>

\* main calls download_all, which sends one message for each start file,
\* each with a clone of tx, and drops tx.
Seed ==
  /\ pc = "main"
  /\ chan' = START_FILES
  /\ senders' = Len(START_FILES)
  /\ pc' = "recv"
  /\ UNCHANGED <<server, base_url, call, max_task_count, cache, tasks, threads, disk, faults>>

\* RecvSkip for a skipped message whose sender stays alive.
RecvSkipKeepsSender ==
  /\ pc = "recv"
  /\ chan # <<>>
  /\ cache_contains(Head(chan))
  /\ chan' = Tail(chan)
  /\ UNCHANGED <<server, base_url, call, max_task_count, pc, cache, senders, tasks, threads, disk, faults>>

\* rx.recv() returns a message whose path is in the cache: the message, and
\* the sender it holds, are dropped.
RecvSkip ==
  /\ pc = "recv"
  /\ chan # <<>>
  /\ cache_contains(Head(chan))
  /\ chan' = Tail(chan)
  /\ senders' = senders - 1
  /\ UNCHANGED <<server, base_url, call, max_task_count, pc, cache, tasks, threads, disk, faults>>

\* rx.recv() returns a message whose path is not in the cache: the path is
\* inserted, a task is spawned for it and its handle pushed; then the loop
\* condition threads.len() >= max_task_count is evaluated.
RecvSpawn ==
  /\ pc = "recv"
  /\ chan # <<>>
  /\ ~cache_contains(Head(chan))
  /\ chan' = Tail(chan)
  /\ cache' = cache \cup {Head(chan)}
  /\ tasks' = Append(tasks, NewTask(Head(chan)))
  /\ threads' = threads \cup {Len(tasks) + 1}
  /\ pc' = IF threads_full(threads') THEN "sleep" ELSE "recv"
  /\ UNCHANGED <<server, base_url, call, max_task_count, senders, disk, faults>>

\* One round of the loop that waits for a free slot: sleep, drop the handles
\* of finished tasks, evaluate the condition again.
Sleep ==
  /\ pc = "sleep"
  /\ threads' = {t \in threads : ~is_finished(t)}
  /\ pc' = IF threads_full(threads') THEN "sleep" ELSE "recv"
  /\ UNCHANGED <<server, base_url, call, max_task_count, cache, chan, senders, tasks, disk, faults>>

\* rx.recv() returns None: no message is buffered and no sender is alive.
\* download_all returns, and main returns Ok.
RecvClosed ==
  /\ pc = "recv"
  /\ chan = <<>>
  /\ senders = 0
  /\ pc' = "done"
  /\ UNCHANGED <<server, base_url, call, max_task_count, cache, chan, senders, tasks, threads, disk, faults>>

\* The task after queue_new_references has nothing more to send: an Err is
\* still to be printed; after Ok or a panic the task is finished.
AfterSending(ending) == IF ending = "err" THEN "logerr" ELSE "finished"

\* Derive for a task that gives up when write_file returns Err.
DeriveUnlessWriteFailed(task, wrote, out) ==
  IF wrote = "err" THEN [task EXCEPT !.fetched = TRUE, !.wrote = wrote, !.pc = "finished"]
  ELSE [task EXCEPT !.fetched = TRUE, !.wrote = wrote, !.todo = out.msgs,
                    !.ending = out.ending,
                    !.pc = IF out.msgs = <<>> THEN AfterSending(out.ending) ELSE "send"]

\* The task once write_file has returned wrote for the file it downloaded:
\* queue_new_references parses the file, with out as its outcome.
Derive(task, wrote, out) ==
  [task EXCEPT !.fetched = TRUE, !.wrote = wrote, !.todo = out.msgs,
               !.ending = out.ending,
               !.pc = IF out.msgs = <<>> THEN AfterSending(out.ending) ELSE "send"]

\* download returns Ok: the server has the file and answers 200.  The task
\* prints the size, calls write_file, which writes the file and returns Ok
\* or returns Err (which is printed), and calls queue_new_references, which
\* parses the file; with nothing to send it ends and drops tx.  These are
\* steps of one task that no other task and no step of download_all reads.
DownloadOk(t) ==
  /\ tasks[t].pc = "download"
  /\ Answers(server, tasks[t].url)
  /\ \E ok \in BOOLEAN :
       /\ ~ok => faults < MaxFaults
       /\ faults' = IF ok THEN faults ELSE faults + 1
       /\ disk' = IF ok THEN disk \cup {tasks[t].path} ELSE disk
       /\ \E out \in OutcomesFor(server, tasks[t].path, tasks[t].url) :
            /\ tasks' = [tasks EXCEPT ![t] = Derive(@, IF ok THEN "ok" ELSE "err", out)]
            /\ senders' = IF out.msgs = <<>> THEN senders - 1 ELSE senders
  /\ UNCHANGED <<server, base_url, call, max_task_count, pc, cache, chan, threads>>

\* DownloadErr for a task that does not return on the error and goes on to
\* write what it has, an empty file.
DownloadErrWrites(t) ==
  /\ tasks[t].pc = "download"
  /\ Answers(server, tasks[t].url) => faults < MaxFaults
  /\ faults' = IF Answers(server, tasks[t].url) THEN faults + 1 ELSE faults
  /\ tasks' = [tasks EXCEPT ![t].pc = "finished", ![t].wrote = "ok"]
  /\ disk' = disk \cup {tasks[t].path}
  /\ senders' = senders - 1
  /\ UNCHANGED <<server, base_url, call, max_task_count, pc, cache, chan, threads>>

\* download returns Err: a 404 (the server has no such file), another
\* status, or a transport error.  The task prints the error and returns,
\* which drops the message and its sender.
DownloadErr(t) ==
  /\ tasks[t].pc = "download"
  /\ Answers(server, tasks[t].url) => faults < MaxFaults
  /\ faults' = IF Answers(server, tasks[t].url) THEN faults + 1 ELSE faults
  /\ tasks' = [tasks EXCEPT ![t].pc = "finished"]
  /\ senders' = senders - 1
  /\ UNCHANGED <<server, base_url, call, max_task_count, pc, cache, chan, threads, disk>>

\* One tx.send of queue_new_references: the message holds a clone of tx.
\* After the last one the function ends (or hash_to_url panics) and tx is
\* dropped.
Send(t) ==
  /\ tasks[t].pc = "send"
  /\ chan' = Append(chan, Head(tasks[t].todo))
  /\ tasks' = [tasks EXCEPT ![t].todo = Tail(@),
                            ![t].sent = Append(@, Head(tasks[t].todo)),
                            ![t].pc = IF Len(tasks[t].todo) = 1
                                      THEN AfterSending(tasks[t].ending) ELSE "send"]
  /\ senders' = IF Len(tasks[t].todo) = 1 THEN senders ELSE senders + 1
  /\ UNCHANGED <<server, base_url, call, max_task_count, pc, cache, threads, disk, faults>>

\* The task prints the Err queue_new_references returned, and is finished.
LogError(t) ==
  /\ tasks[t].pc = "logerr"
  /\ tasks' = [tasks EXCEPT ![t].pc = "finished"]
  /\ UNCHANGED <<server, base_url, call, max_task_count, pc, cache, chan, senders, threads, disk, faults>>

Next ==
  \/ CreateDirFails
  \/ Seed
  \/ RecvSkip
  \/ RecvSpawn
  \/ Sleep
  \/ RecvClosed
  \/ \E t \in DOMAIN tasks : DownloadOk(t)
  \/ \E t \in DOMAIN tasks : DownloadErr(t)
  \/ \E t \in DOMAIN tasks : Send(t)
  \/ \E t \in DOMAIN tasks : LogError(t)

Spec == Init /\ [][Next]_vars

\* The crawls whose termination is checked: those of the e2e server and of
\* the graph server, in which every kind of step is taken.
FairInit == Init /\ server \in {"e2e", "graph"}

\* The crawl under fair scheduling: a step that can be taken is taken.  The
\* runtime runs every spawned task and the loop of download_all, and every
\* started download returns.
FairSpec == FairInit /\ [][Next]_vars /\ WF_vars(Next)

(***************************************************************************)
(* src/git_parsing.rs: the parsers called on their own                     *)
(***************************************************************************)

\* Inputs of parse_head: a prefix, a target and a trailer, as bytes, and
\* some that are no UTF-8.
HeadInputs ==
  {Plain(Bytes(p) \o Utf8(t) \o Bytes(w)) :
     p \in {"ref: ", "ref:", "", "Ref: ", " ref: "},
     t \in {Str("refs/heads/main"), Str("refs/heads/"), Str("refs/heads/a b"),
            Str("refs/heads/a\tb"), Str("refs/heads/.."), Str("refs/heads/../x"),
            Str("refs/heads/a/../b"), Str("refs/heads/a\\.."), Str("refs/heads/a..b"),
            Str("refs/heads/a/.../b"), Str("refs/tags/v1"), Str("xrefs/heads/main"),
            Str("refs/heads"), Str("refs/heads/") \o <<"U+0661">>, <<>>},
     w \in {"", "\n", " \r\n", "\n\n"}}
    \cup {Plain(Bytes("ref: refs/heads/main") \o <<255>> \o Bytes("\n")),
          Plain(<<255>> \o Bytes("ref: refs/heads/main\n")),
          Plain(Bytes("ref: refs/heads/") \o <<217>>)}

\* Inputs of parse_hash: 40 or so characters, with whitespace before or
\* after, as bytes, and one that is no UTF-8.
HashInputs ==
  {Plain(Bytes(p) \o Utf8(h) \o Bytes(w)) :
     p \in {"", " "},
     h \in {HashA, EMPTY_HASH, Str("0123456789abcdef0123456789abcdef01234567"),
            SubSeq(HashA, 1, 39), HashA \o <<"a">>,
            SubSeq(HashA, 1, 39) \o <<"A">>, SubSeq(HashA, 1, 39) \o <<"g">>,
            SubSeq(HashA, 1, 39) \o <<"U+0661">>, SubSeq(HashA, 1, 38) \o <<"U+0661">>,
            SubSeq(HashA, 1, 20) \o <<" ">> \o SubSeq(HashA, 1, 19),
            SubSeq(HashA, 1, 39) \o <<"-">>, <<>>},
     w \in {"", "\n", " \r\n\t"}}
    \cup {Plain(Utf8(SubSeq(HashA, 1, 39)) \o <<255>>),
          Plain(Utf8(HashA) \o <<255>>)}

\* Lines of a reflog, and lines that are none, as bytes.
LogLines ==
  LET meta == Bytes(" a <a@b> 1 +0000\tcommit: x")
  IN  { Utf8(EMPTY_HASH) \o Bytes(" ") \o Utf8(HashA) \o meta,
        Utf8(HashA) \o Bytes(" ") \o Utf8(HashB) \o meta,
        Utf8(HashA) \o Bytes(" ") \o Utf8(CommitHash) \o Bytes(" "),
        Utf8(TreeHash) \o Bytes(" ") \o Utf8(HashB),
        Utf8(CommitHash),
        Utf8(HashA) \o Bytes("  ") \o Utf8(TreeHash) \o meta,
        Utf8(SubSeq(HashA, 1, 39)) \o Bytes("G ") \o Utf8(HashB) \o <<255>> \o meta,
        Bytes("not a line of a reflog"),
        <<>> }

\* Inputs of parse_log: one or two lines, each ended by a line feed, or the
\* last one not.
LogInputs ==
  {Plain(l \o w) : l \in LogLines, w \in {<<>>, <<10>>}}
    \cup {Plain(l1 \o <<10>> \o l2 \o <<10>>) : l1 \in LogLines, l2 \in LogLines}

\* Entries of a tree object: mode, name and the 20 raw bytes of a hash,
\* each with the hex of its raw bytes written out.  Raw bytes may be zero.
TreeEntries ==
  { [mode |-> "100644", name |-> "f", raw |-> RawHash(187), hex |-> HashB],
    [mode |-> "40000", name |-> "dir", raw |-> [i \in 1..RAW_HASH_LEN |-> i - 1],
     hex |-> Str("000102030405060708090a0b0c0d0e0f10111213")],
    [mode |-> "160000", name |-> "sub", raw |-> RawHash(0), hex |-> EMPTY_HASH] }

\* The bytes of a tree entry: <mode> <name>\0<raw>.
EntryBytes(e) == Bytes(e.mode) \o Bytes(" ") \o Bytes(e.name) \o <<0>> \o e.raw

\* The sequences of at most two entries.
EntryLists ==
  {<<>>} \cup {<<e>> : e \in TreeEntries} \cup {<<e1, e2>> : e1 \in TreeEntries, e2 \in TreeEntries}

\* The payload of a tree object: the header tree <size>\0 and the entries.
RECURSIVE TreePayload(_)
TreePayload(es) ==
  IF es = <<>> THEN Bytes("tree 64") \o <<0>>
  ELSE TreePayload(SubSeq(es, 1, Len(es) - 1)) \o EntryBytes(es[Len(es)])

\* Inputs of parse_object that are trees: well-formed ones, and ones that
\* end in the middle of an entry, have no header end, or are no zlib stream.
TreeInputs ==
  {Zlib(TreePayload(es)) : es \in EntryLists}
    \cup {Zlib(TreePayload(es) \o Bytes("100644 g")) : es \in EntryLists}
    \cup {Zlib(TreePayload(es) \o Bytes("100644 g") \o <<0, 1, 2, 3>>) : es \in EntryLists}
    \cup {Zlib(Bytes("tree 64")), Plain(TreePayload(<<>>)),
          [zlib |-> "truncated", bytes |-> TreePayload(<<>>)]}

\* Header lines of a commit object, each with the values it stands for in
\* the result: one for a line that begins with "tree " or "parent ".
CommitHeaderLines ==
  { [text |-> Bytes("tree ") \o Utf8(TreeHash), vals |-> <<TreeHash>>],
    [text |-> Bytes("parent ") \o Utf8(HashA), vals |-> <<HashA>>],
    [text |-> Bytes("parent ") \o Utf8(HashB) \o <<13>>, vals |-> <<HashB>>],
    [text |-> Bytes("author a <a@b> 1 +0000"), vals |-> <<>>],
    [text |-> Bytes("parents ") \o Utf8(HashB), vals |-> <<>>],
    [text |-> Bytes("tree"), vals |-> <<>>],
    [text |-> Bytes(" parent ") \o Utf8(CommitHash), vals |-> <<>>] }

\* The sequences of at most two header lines.
HeaderLists ==
  {<<>>} \cup {<<l>> : l \in CommitHeaderLines}
    \cup {<<l1, l2>> : l1 \in CommitHeaderLines, l2 \in CommitHeaderLines}

\* What follows the header lines: nothing, or a blank line (empty, a
\* carriage return, or spaces) and a message, which may hold lines shaped
\* like headers.
CommitTails ==
  {<<>>}
    \cup {blank \o <<10>> \o msg :
            blank \in {<<>>, <<13>>, Bytes("  ")},
            msg \in {Bytes("message\n"),
                     Bytes("parent ") \o Utf8(CommitHash) \o <<10>>
                       \o Bytes("tree ") \o Utf8(HashB) \o <<10>>,
                     Bytes("first\n\nparent ") \o Utf8(CommitHash) \o <<10>>}}

\* The payload of a commit object: the header commit <size>\0, the header
\* lines, each ended by a line feed, and the tail.
RECURSIVE CommitPayload(_, _)
CommitPayload(hs, tail) ==
  IF hs = <<>> THEN Bytes("commit 200") \o <<0>> \o tail
  ELSE Bytes("commit 200") \o <<0>> \o hs[1].text \o <<10>>
       \o SubSeq(CommitPayload(Tail(hs), tail), 12, Len(CommitPayload(Tail(hs), tail)))

\* The values the header lines stand for, in order.
RECURSIVE HeaderValues(_)
HeaderValues(hs) == IF hs = <<>> THEN <<>> ELSE hs[1].vals \o HeaderValues(Tail(hs))

\* Commit objects: the file, the values its header lines stand for, and
\* its tail.
CommitCases ==
  {[arg |-> Zlib(CommitPayload(hs, tail)), vals |-> HeaderValues(hs), tail |-> tail] :
     hs \in HeaderLists, tail \in CommitTails}

\* Inputs of parse_object that are commits.
CommitInputs == {c.arg : c \in CommitCases}

\* The inputs the parsers are called with.
ParserInputs == HeadInputs \cup HashInputs \cup LogInputs \cup TreeInputs \cup CommitInputs

\* A parser is about to be called with one of the inputs; no crawl runs.
ParserInit ==
  /\ call \in {[fn |-> "", arg |-> a, ret |-> Err] : a \in ParserInputs}
  /\ server = "e2e"
  /\ base_url = ServerRoot
  /\ max_task_count = 0
  /\ pc = "main"
  /\ cache = {}
  /\ chan = <<>>
  /\ senders = 0
  /\ tasks = <<>>
  /\ threads = {}
  /\ disk = {}
  /\ faults = 0

\* The variables of the crawl.
crawl_vars ==
  <<server, base_url, max_task_count, pc, cache, chan, senders, tasks, threads, disk, faults>>

\* parse_head(data) is called and returns.
CallParseHead ==
  /\ call.fn = ""
  /\ call' = [call EXCEPT !.fn = "parse_head", !.ret = parse_head(FileBytes(call.arg))]
  /\ UNCHANGED crawl_vars

\* parse_hash(data) is called and returns.
CallParseHash ==
  /\ call.fn = ""
  /\ call' = [call EXCEPT !.fn = "parse_hash", !.ret = parse_hash(FileBytes(call.arg))]
  /\ UNCHANGED crawl_vars

\* parse_log(data) is called and returns.
CallParseLog ==
  /\ call.fn = ""
  /\ call' = [call EXCEPT !.fn = "parse_log", !.ret = parse_log(FileBytes(call.arg))]
  /\ UNCHANGED crawl_vars

\* parse_object(data) is called and returns.
CallParseObject ==
  /\ call.fn = ""
  /\ call' = [call EXCEPT !.fn = "parse_object", !.ret = parse_object(call.arg)]
  /\ UNCHANGED crawl_vars

ParserNext ==
  \/ CallParseHead
  \/ CallParseHash
  \/ CallParseLog
  \/ CallParseObject

ParserSpec == ParserInit /\ [][ParserNext]_vars

(***************************************************************************)
(* What the claims speak of                                                *)
(***************************************************************************)

\* The tasks that have started and not finished.
Running == {t \in DOMAIN tasks : ~is_finished(t)}

\* The tasks spawned for a path.
TasksOf(path) == {t \in DOMAIN tasks : tasks[t].path = path}

\* The elements of a sequence.
Range(seq) == {seq[i] : i \in DOMAIN seq}

\* main has returned.
Returned == pc \in {"done", "failed"}

\* The paths a fetch has been attempted for.
Attempted == {tasks[t].path : t \in DOMAIN tasks}

\* The candidate paths of the hashes hash_to_url gives a path.
CandidatePaths(hashes) == {hash_to_url(h) : h \in {x \in hashes : ~hash_to_url_panics(x)}}

\* The candidate paths of the leads the parser of the file at path name
\* yields: the ref path parse_head returns, and the path of each hash
\* parse_hash, parse_log or parse_object returns.
YieldedPaths(name, file) ==
  IF name \in {Str("HEAD"), Str("refs/remotes/origin/HEAD")} THEN
    IF parse_head(FileBytes(file)).ok THEN {parse_head(FileBytes(file)).val} ELSE {}
  ELSE IF starts_with(name, Str("refs/heads/")) \/ name = Str("ORIG_HEAD") THEN
    IF parse_hash(FileBytes(file)).ok
    THEN CandidatePaths({parse_hash(FileBytes(file)).val}) ELSE {}
  ELSE IF starts_with(name, Str("logs/")) THEN
    CandidatePaths(parse_log(FileBytes(file)).val)
  ELSE IF starts_with(name, Str("objects/")) /\ REGEX_OBJECT_PATH(name) THEN
    IF parse_object(file).ok
    THEN CandidatePaths(Range(parse_object(file).val.hashes)) ELSE {}
  ELSE {}

\* YieldedPaths of each served file, evaluated once.
ServedYields ==
  [id \in ServerIds |-> {<<e[1], YieldedPaths(e[1], e[2])>> : e \in Served(id)}]

YieldsAt(id, path) == (CHOOSE e \in ServedYields[id] : e[1] = path)[2]

\* The segments of a path.
Segments(path) == Range(split(path, {"/", "\\"}))

\* Forty lowercase hex characters.
LowerHex == {"0", "1", "2", "3", "4", "5", "6", "7", "8", "9", "a", "b", "c", "d", "e", "f"}

IsHash(h) == Len(h) = 40 /\ \A i \in 1..Len(h) : h[i] \in LowerHex

\* A path of shape objects/<2-hex>/<38-hex>.
IsObjectPath(path) ==
  /\ Len(path) = 49
  /\ SubSeq(path, 1, 8) = Str("objects/")
  /\ path[11] = "/"
  /\ IsHash(SubSeq(path, 9, 10) \o SubSeq(path, 12, 49))

(***************************************************************************)
(* The claims                                                              *)
(***************************************************************************)

\* C1: at every moment of a crawl, the number of spawned operations that
\* have started and not finished is at most max_task_count, whatever value
\* of --tasks the crawl runs with.
C1_AtMostNRunning == Cardinality(Running) <= max_task_count

\* C1 where max_task_count is at least 1: the bound holds.
C1_AtMostNRunningPositive ==
  max_task_count >= 1 => Cardinality(Running) <= max_task_count

\* C2: at most one fetch is ever spawned for a path, and the cache holds
\* exactly the paths a fetch was spawned for: a path proposed again, by
\* whichever operation, is skipped.
C2_OneFetchPerPath ==
  /\ \A i, j \in DOMAIN tasks : tasks[i].path = tasks[j].path => i = j
  /\ cache = Attempted

\* C2's case: two operations have proposed the same path, the second while
\* the first was still running; both proposals have been received, and one
\* fetch was spawned for the path.
C2_Witness ==
  \E i, j \in DOMAIN tasks :
     /\ i # j
     /\ ~is_finished(i)
     /\ \E path \in Range(tasks[i].sent) \cap Range(tasks[j].sent) :
          /\ path \notin Range(chan)
          /\ Cardinality(TasksOf(path)) = 1

\* C3: the crawl runs to completion: until main has returned there is a
\* step that changes the state, so the loop of download_all never waits for
\* a slot that cannot come free or for a message that cannot come.
C3_NeverStuck == Returned \/ ENABLED <<Next>>_vars

\* C3 where max_task_count is at least 1: once seeded, the crawl ends.
C3_TerminatesPositive == (max_task_count >= 1 /\ pc = "recv") ~> (pc = "done")

\* C4: when download_all has returned, every spawned operation has
\* finished: none has a step left to do.
C4_AllFinishedAtReturn == pc = "done" => \A t \in DOMAIN tasks : is_finished(t)

\* C5: when the crawl has finished, for every file fetched successfully,
\* each candidate path its parser yields has been claimed and fetched
\* exactly once.
C5_ClosedUnderDiscovery ==
  pc = "done" =>
    \A t \in DOMAIN tasks :
       tasks[t].fetched =>
         \A path \in YieldsAt(server, tasks[t].path) : Cardinality(TasksOf(path)) = 1

\* The paths of the end-to-end run: the start files, the branch HEAD names
\* and the object of the hash in its ref file.
E2EPaths ==
  Range(START_FILES)
    \cup {Str("refs/heads/main"), Str("objects/aa/") \o [i \in 1..38 |-> "a"]}

E2EFiles == {Str("HEAD"), Str("refs/heads/main")}

\* The end-to-end run never fetches another path, never fetches one twice
\* and never writes another file; when it is done and the environment had
\* no fault, it has fetched exactly E2EPaths and written exactly E2EFiles.
E2ESafe ==
  /\ Attempted \subseteq E2EPaths
  /\ \A path \in Attempted : Cardinality(TasksOf(path)) = 1
  /\ disk \subseteq E2EFiles
  /\ pc = "done" /\ faults = 0 => Attempted = E2EPaths /\ disk = E2EFiles

\* The end-to-end run: the crawl is given the URL of the directory under
\* which the e2e server serves HEAD and refs/heads/main.
E2ERun == server = "e2e" /\ base_url = ServerRoot

\* C6: against the server that serves "ref: refs/heads/main" as HEAD and a
\* hash as refs/heads/main and nothing else, the crawl ends (with a
\* max_task_count of at least 1), a fetch is attempted for exactly the 12
\* start files, refs/heads/main and the object path of the hash, once each,
\* and exactly HEAD and refs/heads/main are written.
C6_EndToEnd ==
  /\ [](E2ERun => E2ESafe)
  /\ (E2ERun /\ max_task_count >= 1 /\ pc = "recv") ~> (pc = "done")

C6_Witness ==
  /\ E2ERun /\ pc = "done" /\ faults = 0
  /\ Attempted = E2EPaths /\ disk = E2EFiles

\* C7: the path of the all-zero hash is never claimed, queued or fetched.
C7_ZeroHashNeverScheduled ==
  /\ hash_to_url(EMPTY_HASH) \notin cache
  /\ hash_to_url(EMPTY_HASH) \notin Range(chan)
  /\ hash_to_url(EMPTY_HASH) \notin Attempted

\* C8: every path that is fetched or written is a start file, a path
\* refs/heads/<name>, or a path objects/<2-hex>/<38-hex>, and none has a
\* segment "..".
C8_PathsWellShaped ==
  \A path \in Attempted \cup disk :
     /\ \/ path \in Range(START_FILES)
        \/ starts_with(path, Str("refs/heads/")) /\ Len(path) > 11
        \/ IsObjectPath(path)
     /\ Str("..") \notin Segments(path)

\* C9: a fetch that fails ends its path's branch and nothing else: the task
\* is finished, has written nothing and proposed nothing, the path stays
\* claimed and is fetched by no other task; and when the crawl is done every
\* claimed path has one task, which has no download and no send left.
C9_FailedFetchEndsBranch ==
  /\ \A t \in DOMAIN tasks :
        tasks[t].pc # "download" /\ ~tasks[t].fetched =>
          /\ is_finished(t)
          /\ tasks[t].wrote = "no" /\ tasks[t].path \notin disk
          /\ tasks[t].sent = <<>> /\ tasks[t].todo = <<>> /\ tasks[t].ending = ""
          /\ tasks[t].path \in cache /\ TasksOf(tasks[t].path) = {t}
  /\ pc = "done" =>
       \A path \in cache :
          /\ Cardinality(TasksOf(path)) = 1
          /\ \A t \in TasksOf(path) : tasks[t].pc \in {"logerr", "finished"}

\* C9's case: the download of a file the server has failed, and the crawl
\* went on to fetch another file, send what it leads to, and end.
C9_Witness ==
  /\ pc = "done"
  /\ \E t \in DOMAIN tasks : ~tasks[t].fetched /\ Answers(server, tasks[t].url)
  /\ \E t \in DOMAIN tasks : tasks[t].fetched /\ tasks[t].sent # <<>>

\* C10: what a task proposes for a fetched file is what
\* queue_new_references yields for the file, whether write_file returned Ok
\* or Err; a write error leaves the file unwritten and stops nothing.
C10_WriteErrorKeepsDerivation ==
  \A t \in DOMAIN tasks :
     tasks[t].fetched =>
       /\ tasks[t].wrote \in {"ok", "err"}
       /\ tasks[t].wrote = "err" => tasks[t].path \notin disk
       /\ \E out \in OutcomesAt(server, tasks[t].path) :
            /\ tasks[t].sent \o tasks[t].todo = out.msgs
            /\ tasks[t].ending = out.ending

\* C10's case: write_file returned Err for a file, the task sent what the
\* file leads to all the same, and the crawl ended.
C10_Witness ==
  /\ pc = "done"
  /\ \E t \in DOMAIN tasks : tasks[t].wrote = "err" /\ tasks[t].sent # <<>>

\* A base URL made to end with "/".
WithSlash(base) == IF base # <<>> /\ base[Len(base)] = "/" THEN base ELSE base \o Str("/")

\* C16: the URL of every fetch is the base URL, made to end with "/",
\* followed by the path: one "/" stands between the base and the path,
\* whether or not the base URL was given with a trailing "/".
C16_UrlIsNormalizedBasePlusPath ==
  \A t \in DOMAIN tasks : tasks[t].url = WithSlash(base_url) \o tasks[t].path

\* The str a call was given, when its bytes are UTF-8.
ArgStr == from_utf8(FileBytes(call.arg))

\* What follows "ref: " in the input, with trailing whitespace trimmed.
HeadRemainder == trim_end(SubSeq(ArgStr.val, 6, Len(ArgStr.val)))

\* The input is UTF-8, starts with "ref: ", and the remainder is
\* refs/heads/<name> with a non-empty name and no segment "..".
HeadWellFormed ==
  /\ ArgStr.ok
  /\ starts_with(ArgStr.val, Str("ref: "))
  /\ starts_with(HeadRemainder, Str("refs/heads/"))
  /\ Len(HeadRemainder) > Len(Str("refs/heads/"))
  /\ Str("..") \notin Segments(HeadRemainder)

\* C11 as stated: parse_head accepts exactly the inputs that are UTF-8,
\* start with "ref: " and whose trimmed remainder is refs/heads/<name> with
\* <name> non-empty and no segment ".."; it returns the remainder.
C11_ParseHeadAcceptsExactly ==
  call.fn = "parse_head" =>
    /\ call.ret.ok <=> HeadWellFormed
    /\ call.ret.ok => call.ret.val = HeadRemainder

\* C11, amended: as stated, where <name> is moreover free of whitespace
\* characters (a name with a space or tab inside is rejected).
C11_ParseHeadAcceptsExactlyNoSpace ==
  call.fn = "parse_head" =>
    /\ call.ret.ok <=>
         /\ HeadWellFormed
         /\ \A i \in 1..Len(HeadRemainder) : HeadRemainder[i] \notin WhiteSpace
    /\ call.ret.ok => call.ret.val = HeadRemainder

\* C11's cases: an input parse_head accepts and returns the remainder of,
\* and each kind of input it rejects.
C11_WitnessAccepted ==
  /\ call.fn = "parse_head" /\ call.ret.ok
  /\ call.ret.val = Str("refs/heads/main")
  /\ call.arg = Plain(Bytes("ref: refs/heads/main \r\n"))

\* The input is UTF-8 and, with trailing whitespace trimmed, is 40
\* characters each in 0-9 or a-f.
HashWellFormed == ArgStr.ok /\ IsHash(trim_end(ArgStr.val))

\* C12: parse_hash accepts an input if and only if it is exactly 40
\* characters each in 0-9 or a-f, optionally followed by whitespace, and
\* then returns those 40 characters; every other input is rejected.
C12_ParseHashAcceptsExactly ==
  call.fn = "parse_hash" =>
    /\ call.ret.ok <=> HashWellFormed
    /\ call.ret.ok => call.ret.val = trim_end(ArgStr.val)

\* C12 for inputs that are ASCII: there the accepted inputs are as stated.
C12_ParseHashAcceptsExactlyAscii ==
  call.fn = "parse_hash" /\ (\A i \in DOMAIN call.arg.bytes : call.arg.bytes[i] < 128) =>
    /\ call.ret.ok <=> HashWellFormed
    /\ call.ret.ok => call.ret.val = trim_end(ArgStr.val)

\* The first and the second space-delimited field of a line.
HashFields(line) ==
  LET fields == split(line, {" "})
  IN  {fields[k] : k \in DOMAIN fields \cap {1, 2}}

\* The old-hash and new-hash fields of the lines of the input that have
\* the shape of a hash and are not the all-zero hash.
LogLeads ==
  LET content == lines(from_utf8_lossy(FileBytes(call.arg)))
  IN  {v \in UNION {HashFields(content[k]) : k \in DOMAIN content} :
         IsHash(v) /\ v # EMPTY_HASH}

\* C13: parse_log never fails and returns exactly the first and second
\* space-delimited fields of the lines of the input that have the shape of
\* a hash and are not the all-zero hash, whatever follows them on the line.
C13_ParseLogReturnsHashFields ==
  call.fn = "parse_log" => call.ret.ok /\ call.ret.val = LogLeads

\* C13 for inputs in which a space follows the new-hash field of every
\* line: there parse_log returns the fields as stated.
C13_ParseLogReturnsHashFieldsOfFullLines ==
  LET content == lines(from_utf8_lossy(FileBytes(call.arg)))
  IN  /\ call.fn = "parse_log"
      /\ \A k \in DOMAIN content : Len(split(content[k], {" "})) >= 3
      => call.ret.ok /\ call.ret.val = LogLeads

\* For a well-formed tree object parse_object returns Tree with the hex of
\* the raw bytes of each entry, in order, duplicates kept.
TreeOfEntries ==
  \A es \in EntryLists :
     call.fn = "parse_object" /\ call.arg = Zlib(TreePayload(es)) =>
       /\ call.ret.ok /\ call.ret.val.kind = "Tree"
       /\ call.ret.val.hashes = [i \in DOMAIN es |-> es[i].hex]

\* Every hash of a returned Tree is 40 hex characters.
TreeHashesAreHashes ==
  call.fn = "parse_object" /\ call.ret.ok /\ call.ret.val.kind = "Tree" =>
    \A i \in DOMAIN call.ret.val.hashes : IsHash(call.ret.val.hashes[i])

\* C14: for a tree object with k >= 0 entries parse_object returns Tree
\* with the k hashes of the entries, each the 40-character hex of its 20
\* raw bytes, in order, duplicates kept, also when raw bytes are zero; and
\* every hash in any returned Tree is exactly 40 hex characters.
C14_TreeHashesExact == TreeOfEntries /\ TreeHashesAreHashes

\* C15: for a commit object parse_object returns Commit with exactly the
\* values of the header lines that begin with "tree " or "parent ", in
\* header order, taken from the lines before the first blank line (a line
\* that is empty once trimmed); nothing of the message is in the result,
\* even where it has lines shaped like "tree <hex>" or "parent <hex>".
C15_CommitHeadersOnly ==
  \A c \in CommitCases :
     call.fn = "parse_object" /\ call.arg = c.arg =>
       /\ call.ret.ok /\ call.ret.val.kind = "Commit"
       /\ call.ret.val.hashes = c.vals

\* C15's case: a commit with a tree and a parent header, and a message that
\* holds a line "parent <hex>" and a line "tree <hex>".
C15_Witness ==
  /\ call.fn = "parse_object" /\ call.ret.ok
  /\ call.ret.val = Commit(<<TreeHash, HashA>>)
  /\ \E c \in CommitCases :
        /\ call.arg = c.arg
        /\ c.tail = <<10>> \o Bytes("parent ") \o Utf8(CommitHash) \o <<10>>
                           \o Bytes("tree ") \o Utf8(HashB) \o <<10>>

\* C17: the only fatal error is at startup: when main has returned the
\* error of create_dir_all no start file was enqueued and no fetch was
\* attempted; and once the crawl has started main returns nothing but Ok,
\* whatever fetch, parse or write errors occur.
C17_OnlyStartupIsFatal ==
  /\ pc = "failed" =>
       /\ chan = <<>> /\ senders = 0 /\ cache = {}
       /\ tasks = <<>> /\ threads = {} /\ disk = {}
  /\ Returned /\ (tasks # <<>> \/ chan # <<>> \/ faults > 0) => pc = "done"

\* C17's case: main has returned Ok after a crawl in which a download
\* failed, a parser returned an error, and a download or a write of a file
\* the server has failed.
C17_Witness ==
  /\ pc = "done" /\ faults > 0
  /\ \E t \in DOMAIN tasks : ~tasks[t].fetched
  /\ \E t \in DOMAIN tasks : tasks[t].ending = "err"

\* The parser the claim gives a path: parse_head for HEAD and
\* refs/remotes/origin/HEAD, parse_hash for refs/heads/* and ORIG_HEAD,
\* parse_log for logs/*, parse_object for a path that is exactly
\* objects/<2-hex>/<38-hex>, none for every other path.
ParserOfRole(path) ==
  IF path \in {Str("HEAD"), Str("refs/remotes/origin/HEAD")} THEN "parse_head"
  ELSE IF starts_with(path, Str("refs/heads/")) \/ path = Str("ORIG_HEAD") THEN "parse_hash"
  ELSE IF starts_with(path, Str("logs/")) THEN "parse_log"
  ELSE IF IsObjectPath(path) THEN "parse_object"
  ELSE "none"

\* The paths a crawl of one of the servers can send: the start files and
\* what queue_new_references sends for a served file.
KnownPaths ==
  Range(START_FILES)
    \cup UNION {Range(o.msgs) : o \in UNION {e[2] : e \in UNION {ServedOutcomes[id] : id \in ServerIds}}}

\* For each of these paths, the parser queue_new_references hands it to and
\* the parser of its role, evaluated once.
DispatchOf == [path \in KnownPaths |-> Dispatch(path)]

RoleOf == [path \in KnownPaths |-> ParserOfRole(path)]

\* The paths at which each server serves a file that queue_new_references
\* hands to parse_object and that is a Blob object.
ServedBlobs ==
  [id \in ServerIds |->
     {e[1] : e \in {x \in Served(id) :
                      /\ Dispatch(x[1]) = "parse_object"
                      /\ parse_object(x[2]).ok
                      /\ parse_object(x[2]).val.kind = "Blob"}}]

\* The file a fetched task downloaded is a Blob object.
IsBlobTask(t) == tasks[t].path \in ServedBlobs[server]

\* C18: every downloaded path is handed to the parser of its role, to
\* parse_object only when it is exactly objects/<2-hex>/<38-hex>; a path
\* of no role proposes nothing whatever its content, and neither does a
\* Blob object.
C18_DispatchByRole ==
  \A t \in DOMAIN tasks :
     /\ DispatchOf[tasks[t].path] = RoleOf[tasks[t].path]
     /\ tasks[t].fetched /\ RoleOf[tasks[t].path] = "none" =>
          tasks[t].sent = <<>> /\ tasks[t].todo = <<>> /\ tasks[t].ending = "ok"
     /\ tasks[t].fetched /\ IsBlobTask(t) =>
          tasks[t].sent = <<>> /\ tasks[t].todo = <<>> /\ tasks[t].ending = "ok"

\* C18's case: objects/info/packs was downloaded with a hash as content,
\* and a path objects/..//.. that has not the shape of an object path with
\* a ref file as content, and the crawl ended with no task for what they
\* hold.
C18_Witness ==
  /\ server = "badcommit" /\ pc = "done"
  /\ \A path \in {Str("objects/info/packs"), hash_to_url(TraversalHash)} :
        \E t \in TasksOf(path) : tasks[t].fetched
  /\ TasksOf(Str("refs/heads/main")) = {}
  /\ TasksOf(hash_to_url(TreeHash)) = {}

\* The tasks that have not finished deriving references: they are in
\* download or have a path left to send.
Deriving == {t \in DOMAIN tasks : tasks[t].pc \in {"download", "send"}}

\* C19: after seeding, the number of live senders is the number of
\* buffered messages plus the number of tasks that have not finished
\* deriving references; so the receive reports closed exactly when no
\* message is buffered and no task can still propose a path.
C19_SenderAccounting ==
  /\ pc \in {"recv", "sleep", "done"} => senders = Len(chan) + Cardinality(Deriving)
  /\ pc = "done" => chan = <<>> /\ Deriving = {}
  /\ pc = "recv" /\ chan = <<>> /\ Deriving = {} => ENABLED RecvClosed

\* C19's case: the crawl has ended after a message was skipped, a download
\* failed, a parser returned an error and a task sent several paths.
C19_Witness ==
  /\ pc = "done" /\ senders = 0
  /\ \E i, j \in DOMAIN tasks :
        i # j /\ Range(tasks[i].sent) \cap Range(tasks[j].sent) # {}
  /\ \E t \in DOMAIN tasks : ~tasks[t].fetched
  /\ \E t \in DOMAIN tasks : tasks[t].ending = "err"
  /\ \E t \in DOMAIN tasks : Len(tasks[t].sent) = 3

\* C20: a task whose call of queue_new_references ends in an error (a
\* parser fails, or hash_to_url rejects a hash) has sent no path derived
\* from its file.
C20_AllOrNothing ==
  \A t \in DOMAIN tasks : tasks[t].ending \in {"err", "panic"} => tasks[t].sent = <<>>

\* C20 for parser failures alone: a task whose parser failed has sent
\* nothing.
C20_NothingSentOnParserError ==
  \A t \in DOMAIN tasks :
     tasks[t].ending = "err" => tasks[t].sent = <<>> /\ tasks[t].todo = <<>>

=============================================================================
